---- MODULE Spec2Model ----
(***************************************************************************)
(* Frame-quality gate of skin_wound_capture (src/script.js, the version    *)
(* with the poor-quality timer, lines 142-290): model load, webcam start,  *)
(* the requestAnimationFrame prediction loop and updateUI.                 *)
(*                                                                         *)
(* Time is Date.now() in milliseconds.  A handler runs to completion, so  *)
(* the Date.now() reads of one updateUI call return the same value `now`. *)
(***************************************************************************)
EXTENDS Integers, Sequences, FiniteSets, TLC

\* ------------------------------------------------------------- bounds
\* The clock stops advancing once it no longer matters: MaxNow ms after
\* page load while the timer is unset, MaxElapsed ms after the timer start
\* while it is set.  A non-good streak begins no later than MaxNow.
MaxNow == 20000
MaxElapsed == 20000
\* How often video.onloadedmetadata may fire.
MaxMetadataEvents == 2
\* Score arrays handed to argmax on its own: lengths 1..MaxLen, values 0..MaxScore.
MaxLen == 4
MaxScore == 2
\* Frames handed to preprocessing on its own: heights 1..MaxHeight, widths
\* 1..MaxWidth, every pixel one of Palette (RGBA).
MaxHeight == 2
MaxWidth == 3
Palette == { <<128, 128, 128, 255>>, <<255, 0, 64, 255>> }
\* Amounts by which the clock advances between two handlers (ms).
TickSteps == {9999, 10000}

\* ---------------------------------------------------------- constants
TIMEOUT_SECONDS == 20
MsPerSecond == 1000
\* JavaScript null (poorQualityStartTime) / a const not yet assigned.
NULL == -1

labels == <<"good_quality", "blurry", "too_dark", "poor_framing">>
NonGoodLabels == {"blurry", "too_dark", "poor_framing"}

MsgModelError == "Error loading model. Check console."
MsgWebcamDenied == "Webcam access denied. Please enable it."
MsgProceed == "You can take the picture now."
\* Text the page's HTML gives the overlay before any script writes it.
MsgHtml == ""

VARIABLES
    \* program state
    modelLoaded, isPredicting, poorQualityStartTime,
    captureDisabled, captureText, overlayText, overlayDisplay,
    \* control state
    loadState,      \* initializeModel: "idle", "loading", "loaded", "failed"
    camera,         \* startWebcam: "none", "pending", "streaming", "denied", "unsupported"
    rafPending,     \* runInference callbacks queued by requestAnimationFrame
    awaitingData,   \* runInference instances suspended at await transposedTensor.data()
    awaitingRun,    \* runInference instances suspended at await session.run(...)
    scores,         \* argmax on its own: its argument
    argmaxResult,   \* argmax on its own: its result, NULL before the call
    imageData,      \* preprocessing on its own: the frame read from the canvas
    tensorData,     \* preprocessing on its own: the data of the tensor built
    tensorBy,       \* "none", "preprocess" or "tf": which code built tensorData
    \* environment
    now,            \* Date.now()
    hasGetUserMedia,\* navigator.mediaDevices && navigator.mediaDevices.getUserMedia
    \* history
    lastLabel,      \* label of the last frame passed to updateUI, or "none"
    streakStart,    \* time of the first frame of the current non-good streak
    gate,           \* gate state after the last classified frame
    prevGate,       \* gate state before the last classified frame
    lastOutcome,    \* "none", "ok" or "threw": how the last iteration ended
    iterBit,        \* flips whenever an iteration of runInference ends
    iterStartUI,    \* gate state and UI when the last iteration began
    metadataEvents, \* onloadedmetadata events so far
    loopsStarted,   \* runInference chains started by startPredictionLoop
    loadAttempts,   \* session.loadModel calls
    cameraRequests  \* getUserMedia calls

progVars == <<modelLoaded, isPredicting, poorQualityStartTime,
              captureDisabled, captureText, overlayText, overlayDisplay>>
frameVars == <<imageData, tensorData, tensorBy>>
ctlVars == <<loadState, camera, rafPending, awaitingData, awaitingRun,
             scores, argmaxResult, frameVars>>
envVars == <<now, hasGetUserMedia>>
histVars == <<lastLabel, streakStart, gate, prevGate, lastOutcome, iterBit,
              iterStartUI, metadataEvents, loopsStarted, loadAttempts,
              cameraRequests>>
vars == <<progVars, ctlVars, envVars, histVars>>

\* The gate state and the UI as one record.
UI == [poorQualityStartTime |-> poorQualityStartTime,
       captureDisabled |-> captureDisabled,
       captureText |-> captureText,
       overlayText |-> overlayText,
       overlayDisplay |-> overlayDisplay]

SetUI(r) ==
    /\ poorQualityStartTime' = r.poorQualityStartTime
    /\ captureDisabled' = r.captureDisabled
    /\ captureText' = r.captureText
    /\ overlayText' = r.overlayText
    /\ overlayDisplay' = r.overlayDisplay

uiVars == <<poorQualityStartTime, captureDisabled, captureText, overlayText,
            overlayDisplay>>

\* The page before any script ran: no overlay, capture enabled, default text.
PageInitialUI ==
    [poorQualityStartTime |-> NULL,
     captureDisabled |-> FALSE,
     captureText |-> "Take Picture",
     overlayText |-> MsgHtml,
     overlayDisplay |-> "none"]

\* ------------------------------------------------------ pure functions

\* predictedLabel.replace('_', ' '): the first underscore becomes a space.
ReplaceUnderscore(label) ==
    CASE label = "good_quality" -> "good quality"
      [] label = "blurry" -> "blurry"
      [] label = "too_dark" -> "too dark"
      [] label = "poor_framing" -> "poor framing"

\* The template literal of updateUI's else branch.
DetectedMessage(label) ==
    CASE ReplaceUnderscore(label) = "blurry" -> "(no entry) blurry detected!"
      [] ReplaceUnderscore(label) = "too dark" -> "(no entry) too dark detected!"
      [] ReplaceUnderscore(label) = "poor framing" -> "(no entry) poor framing detected!"
      [] ReplaceUnderscore(label) = "good quality" -> "(no entry) good quality detected!"

\* labels[prediction]: undefined outside 0..3.
LabelAt(p) ==
    IF p >= 0 /\ p < Len(labels) THEN labels[p + 1] ELSE "undefined"

\* argmaxLoop with >= for >: the last maximum wins.
RECURSIVE argmaxLoop_ge(_, _, _, _)
argmaxLoop_ge(array, i, max, maxIndex) ==
    IF i >= Len(array) THEN maxIndex
    ELSE IF array[i + 1] >= max
         THEN argmaxLoop_ge(array, i + 1, array[i + 1], i)
         ELSE argmaxLoop_ge(array, i + 1, max, maxIndex)

\* The loop of argmax, from index i (0-based) on.
RECURSIVE argmaxLoop(_, _, _, _)
argmaxLoop(array, i, max, maxIndex) ==
    IF i >= Len(array) THEN maxIndex
    ELSE IF array[i + 1] > max
         THEN argmaxLoop(array, i + 1, array[i + 1], i)
         ELSE argmaxLoop(array, i + 1, max, maxIndex)

\* argmax(array); on an empty array array[0] is undefined and 0 is returned.
argmax(array) ==
    IF Len(array) = 0 THEN 0 ELSE argmaxLoop(array, 1, array[1], 0)

\* mean and std of the normalisation, in thousandths.
mean == <<485, 456, 406>>
std == <<229, 224, 225>>

\* (value / 255.0 - mean[c]) / std[c] for channel c (0-based), as the exact
\* fraction <<numerator, denominator>> = (1000 value - 255 mean) / (255 std).
Normalized(c, value) ==
    <<1000 * value - 255 * mean[c + 1], 255 * std[c + 1]>>

\* The two loops of preprocess from pixel (h, w) on: each pixel appends its
\* red, green and blue values at offset, offset + 1, offset + 2.
RECURSIVE preprocessLoop(_, _, _, _, _, _)
preprocessLoop(data, width, height, h, w, tensor) ==
    IF h >= height THEN tensor
    ELSE IF w >= width
         THEN preprocessLoop(data, width, height, h + 1, 0, tensor)
         ELSE LET index == (h * width + w) * 4
              IN  preprocessLoop(data, width, height, h, w + 1,
                      tensor \o << Normalized(0, data[index + 0 + 1]),
                                   Normalized(1, data[index + 1 + 1]),
                                   Normalized(2, data[index + 2 + 1]) >>)

\* preprocess(imageData): the data of the tensor it returns, which it
\* declares with dims [1, 3, height, width].
preprocess(image) ==
    preprocessLoop(image.data, image.width, image.height, 0, 0, <<>>)

\* The tensor pipeline of runInference on a frame that already has the
\* model's input size (resizeBilinear then samples every pixel as it is):
\* fromPixels gives [height, width, 3], the normalisation broadcasts over the
\* last axis, transpose([0, 3, 1, 2]) gives [1, 3, height, width] and data()
\* flattens it row by row.
tfPipeline(image) ==
    LET H == image.height
        W == image.width
        hwc == [h \in 0..(H - 1) |-> [w \in 0..(W - 1) |-> [c \in 0..2 |->
                   Normalized(c, image.data[(h * W + w) * 4 + c + 1])]]]
        chw == [c \in 0..2 |-> [h \in 0..(H - 1) |-> [w \in 0..(W - 1) |->
                   hwc[h][w][c]]]]
    IN  [k \in 1..(3 * H * W) |->
            chw[(k - 1) \div (H * W)][((k - 1) % (H * W)) \div W][(k - 1) % W]]

\* TimedOut with > for >=.
TimedOut_strict(elapsedMs) == elapsedMs > TIMEOUT_SECONDS * MsPerSecond

\* elapsedSeconds >= TIMEOUT_SECONDS, with elapsedSeconds = elapsedMs / 1000
\* a floating-point division: exactly elapsedMs >= 20000 for integer ms.
TimedOut(elapsedMs) == elapsedMs >= TIMEOUT_SECONDS * MsPerSecond

\* updateUI whose good branch leaves captureButton.disabled alone.
updateUI_noEnable(predictedLabel, ui, t) ==
    IF predictedLabel = "good_quality"
    THEN [ui EXCEPT !.overlayDisplay = "none",
                    !.captureText = "Take Picture",
                    !.poorQualityStartTime = NULL]
    ELSE LET start == IF ui.poorQualityStartTime = NULL
                      THEN t ELSE ui.poorQualityStartTime
             elapsedMs == t - start
         IN  [poorQualityStartTime |-> start,
              captureText |-> "Take Anyway",
              overlayDisplay |-> "block",
              overlayText |-> IF TimedOut(elapsedMs)
                              THEN MsgProceed
                              ELSE DetectedMessage(predictedLabel),
              captureDisabled |-> ~TimedOut(elapsedMs)]

\* updateUI whose good branch leaves poorQualityStartTime alone.
updateUI_noReset(predictedLabel, ui, t) ==
    IF predictedLabel = "good_quality"
    THEN [ui EXCEPT !.overlayDisplay = "none",
                    !.captureText = "Take Picture",
                    !.captureDisabled = FALSE]
    ELSE LET start == IF ui.poorQualityStartTime = NULL
                      THEN t ELSE ui.poorQualityStartTime
             elapsedMs == t - start
         IN  [poorQualityStartTime |-> start,
              captureText |-> "Take Anyway",
              overlayDisplay |-> "block",
              overlayText |-> IF TimedOut(elapsedMs)
                              THEN MsgProceed
                              ELSE DetectedMessage(predictedLabel),
              captureDisabled |-> ~TimedOut(elapsedMs)]

\* updateUI whose timeout branch leaves overlayMessage.textContent alone.
updateUI_keepMessage(predictedLabel, ui, t) ==
    IF predictedLabel = "good_quality"
    THEN [ui EXCEPT !.overlayDisplay = "none",
                    !.captureText = "Take Picture",
                    !.captureDisabled = FALSE,
                    !.poorQualityStartTime = NULL]
    ELSE LET start == IF ui.poorQualityStartTime = NULL
                      THEN t ELSE ui.poorQualityStartTime
             elapsedMs == t - start
         IN  [poorQualityStartTime |-> start,
              captureText |-> "Take Anyway",
              overlayDisplay |-> "block",
              overlayText |-> DetectedMessage(predictedLabel),
              captureDisabled |-> ~TimedOut(elapsedMs)]

\* updateUI without the timer (the gate before the grace period was added).
updateUI_noTimer(predictedLabel, ui, t) ==
    IF predictedLabel = "good_quality"
    THEN [ui EXCEPT !.overlayDisplay = "none",
                    !.captureText = "Take Picture",
                    !.captureDisabled = FALSE,
                    !.poorQualityStartTime = NULL]
    ELSE LET start == IF ui.poorQualityStartTime = NULL
                      THEN t ELSE ui.poorQualityStartTime
         IN  [poorQualityStartTime |-> start,
              captureText |-> "Take Anyway",
              overlayDisplay |-> "block",
              overlayText |-> DetectedMessage(predictedLabel),
              captureDisabled |-> TRUE]

\* updateUI that starts the timer on every non-good frame (no null check).
updateUI_restart(predictedLabel, ui, t) ==
    IF predictedLabel = "good_quality"
    THEN [ui EXCEPT !.overlayDisplay = "none",
                    !.captureText = "Take Picture",
                    !.captureDisabled = FALSE,
                    !.poorQualityStartTime = NULL]
    ELSE LET start == t
             elapsedMs == t - start
         IN  [poorQualityStartTime |-> start,
              captureText |-> "Take Anyway",
              overlayDisplay |-> "block",
              overlayText |-> IF TimedOut(elapsedMs)
                              THEN MsgProceed
                              ELSE DetectedMessage(predictedLabel),
              captureDisabled |-> ~TimedOut(elapsedMs)]

\* updateUI whose non-good branch leaves overlayMessage.style.display alone.
updateUI_noDisplay(predictedLabel, ui, t) ==
    IF predictedLabel = "good_quality"
    THEN [ui EXCEPT !.overlayDisplay = "none",
                    !.captureText = "Take Picture",
                    !.captureDisabled = FALSE,
                    !.poorQualityStartTime = NULL]
    ELSE LET start == IF ui.poorQualityStartTime = NULL
                      THEN t ELSE ui.poorQualityStartTime
             elapsedMs == t - start
         IN  [poorQualityStartTime |-> start,
              captureText |-> "Take Anyway",
              overlayDisplay |-> ui.overlayDisplay,
              overlayText |-> IF TimedOut(elapsedMs)
                              THEN MsgProceed
                              ELSE DetectedMessage(predictedLabel),
              captureDisabled |-> ~TimedOut(elapsedMs)]

\* updateUI whose good branch leaves captureButton.textContent alone.
updateUI_staleText(predictedLabel, ui, t) ==
    IF predictedLabel = "good_quality"
    THEN [ui EXCEPT !.overlayDisplay = "none",
                    !.captureDisabled = FALSE,
                    !.poorQualityStartTime = NULL]
    ELSE LET start == IF ui.poorQualityStartTime = NULL
                      THEN t ELSE ui.poorQualityStartTime
             elapsedMs == t - start
         IN  [poorQualityStartTime |-> start,
              captureText |-> "Take Anyway",
              overlayDisplay |-> "block",
              overlayText |-> IF TimedOut(elapsedMs)
                              THEN MsgProceed
                              ELSE DetectedMessage(predictedLabel),
              captureDisabled |-> ~TimedOut(elapsedMs)]

\* updateUI(predictedLabel) at Date.now() = t, from gate state and UI `ui`.
updateUI(predictedLabel, ui, t) ==
    IF predictedLabel = "good_quality"
    THEN [ui EXCEPT !.overlayDisplay = "none",
                    !.captureText = "Take Picture",
                    !.captureDisabled = FALSE,
                    !.poorQualityStartTime = NULL]
    ELSE LET start == IF ui.poorQualityStartTime = NULL
                      THEN t ELSE ui.poorQualityStartTime
             elapsedMs == t - start
         IN  [poorQualityStartTime |-> start,
              captureText |-> "Take Anyway",
              overlayDisplay |-> "block",
              overlayText |-> IF TimedOut(elapsedMs)
                              THEN MsgProceed
                              ELSE DetectedMessage(predictedLabel),
              captureDisabled |-> ~TimedOut(elapsedMs)]

\* The catch block of runInference with an error shown to the user.
CatchPrediction_showError(ui) ==
    [ui EXCEPT !.overlayText = "Prediction failed", !.overlayDisplay = "block"]

\* The catch block of runInference: console.error only; gate state and UI
\* stay as they are.
CatchPrediction(ui) == ui

\* ScheduleNext with requestAnimationFrame inside the try block.
ScheduleNext_inTry(threw, pending) == IF threw THEN pending ELSE pending + 1

\* ScheduleNext with a second requestAnimationFrame at the end of the try
\* block.
ScheduleNext_twice(threw, pending) ==
    IF threw THEN pending + 1 ELSE pending + 2

\* requestAnimationFrame(runInference) after the try/catch of runInference:
\* it runs whether or not the try block threw.
ScheduleNext(threw, pending) == pending + 1

\* The gate of the design, followed from the labels and times alone.
GateAfter(label, start, t) ==
    IF label = "good_quality" THEN "GOOD"
    ELSE IF t - start >= TIMEOUT_SECONDS * MsPerSecond THEN "POOR_TIMED_OUT"
    ELSE "POOR_WITHIN_GRACE"

\* ------------------------------------------------------------- inputs

\* Outputs session.run resolves with: a clear winner for each class, ties,
\* and a five-class output whose winner has no label.
FrameOutputs ==
    { <<2, 1, 0, 0>>, <<1, 1, 0, 0>>, <<0, 2, 1, 0>>, <<0, 2, 2, 0>>,
      <<0, 1, 2, 1>>, <<0, 0, 1, 2>>, <<0, 0, 0, 1, 2>> }

ScoreArrays ==
    UNION { [1..n -> 0..MaxScore] : n \in 1..MaxLen }

\* getImageData of an H x W canvas whose pixels are px[1], px[2], ... row by
\* row: the RGBA values interleaved.
ImageOf(H, W, px) ==
    [data |-> [k \in 1..(4 * H * W) |-> px[((k - 1) \div 4) + 1][((k - 1) % 4) + 1]],
     width |-> W,
     height |-> H]

Frames ==
    UNION { { ImageOf(H, W, px) : px \in [1..(H * W) -> Palette] } :
            H \in 1..MaxHeight, W \in 1..MaxWidth }

\* --------------------------------------------------------------- Init

\* The script's state after it was evaluated, before window.onload.
InitScript ==
    /\ modelLoaded = FALSE
    /\ isPredicting = FALSE
    /\ poorQualityStartTime = PageInitialUI.poorQualityStartTime
    /\ captureDisabled = PageInitialUI.captureDisabled
    /\ captureText = PageInitialUI.captureText
    /\ overlayText = PageInitialUI.overlayText
    /\ overlayDisplay = PageInitialUI.overlayDisplay
    /\ loadState = "idle"
    /\ camera = "none"
    /\ rafPending = 0
    /\ awaitingData = 0
    /\ awaitingRun = 0
    /\ now = 0
    /\ lastLabel = "none"
    /\ streakStart = NULL
    /\ gate = "GOOD"
    /\ prevGate = "GOOD"
    /\ lastOutcome = "none"
    /\ iterBit = 0
    /\ iterStartUI = PageInitialUI
    /\ metadataEvents = 0
    /\ loopsStarted = 0
    /\ loadAttempts = 0
    /\ cameraRequests = 0

\* No frame: preprocessing on its own has not been given one.
NoFrame == [data |-> <<>>, width |-> 0, height |-> 0]

Init ==
    /\ InitScript
    /\ hasGetUserMedia \in BOOLEAN
    /\ scores = <<>>
    /\ argmaxResult = NULL
    /\ imageData = NoFrame
    /\ tensorData = <<>>
    /\ tensorBy = "none"

\* ---------------------------------------------------------- lifecycle

\* startWebcam(): getUserMedia is requested only when the browser has it;
\* there is no else branch.
StartWebcam ==
    IF hasGetUserMedia
    THEN /\ camera' = "pending"
         /\ cameraRequests' = cameraRequests + 1
    ELSE /\ camera' = "unsupported"
         /\ UNCHANGED cameraRequests

\* The catch block of initializeModel followed by startWebcam().
InitializeModelCatch_thenWebcam ==
    /\ loadState' = "failed"
    /\ overlayText' = MsgModelError
    /\ overlayDisplay' = "block"
    /\ StartWebcam
    /\ UNCHANGED modelLoaded

\* The catch block of initializeModel.
InitializeModelCatch ==
    /\ loadState' = "failed"
    /\ overlayText' = MsgModelError
    /\ overlayDisplay' = "block"
    /\ UNCHANGED <<modelLoaded, camera, cameraRequests>>

\* initializeModel calling startWebcam() before it awaits session.loadModel.
WindowOnLoad_webcamFirst ==
    /\ loadState = "idle"
    /\ \E constructed \in BOOLEAN :
          IF constructed
          THEN /\ loadState' = "loading"
               /\ loadAttempts' = loadAttempts + 1
               /\ StartWebcam
               /\ UNCHANGED <<modelLoaded, overlayText, overlayDisplay>>
          ELSE /\ InitializeModelCatch
               /\ UNCHANGED loadAttempts
    /\ UNCHANGED <<isPredicting, poorQualityStartTime, captureDisabled,
                   captureText, rafPending, awaitingData, awaitingRun,
                   scores, argmaxResult, frameVars, envVars, lastLabel, streakStart,
                   gate, prevGate, lastOutcome, iterBit, iterStartUI,
                   metadataEvents, loopsStarted>>

\* window.onload = initializeModel: up to await session.loadModel(...).
WindowOnLoad ==
    /\ loadState = "idle"
    /\ \E constructed \in BOOLEAN :
          IF constructed
          THEN /\ loadState' = "loading"
               /\ loadAttempts' = loadAttempts + 1
               /\ UNCHANGED <<modelLoaded, camera, cameraRequests,
                              overlayText, overlayDisplay>>
          ELSE /\ InitializeModelCatch
               /\ UNCHANGED loadAttempts
    /\ UNCHANGED <<isPredicting, poorQualityStartTime, captureDisabled,
                   captureText, rafPending, awaitingData, awaitingRun,
                   scores, argmaxResult, frameVars, envVars, lastLabel, streakStart,
                   gate, prevGate, lastOutcome, iterBit, iterStartUI,
                   metadataEvents, loopsStarted>>

\* session.loadModel resolved: modelLoaded = true; startWebcam().
LoadModelResolve ==
    /\ loadState = "loading"
    /\ loadState' = "loaded"
    /\ modelLoaded' = TRUE
    /\ StartWebcam
    /\ UNCHANGED <<isPredicting, uiVars, rafPending, awaitingData,
                   awaitingRun, scores, argmaxResult, frameVars, envVars, lastLabel,
                   streakStart, gate, prevGate, lastOutcome, iterBit,
                   iterStartUI, metadataEvents, loopsStarted, loadAttempts>>

\* session.loadModel rejected.
LoadModelReject ==
    /\ loadState = "loading"
    /\ InitializeModelCatch
    /\ UNCHANGED <<isPredicting, poorQualityStartTime, captureDisabled,
                   captureText, rafPending, awaitingData, awaitingRun,
                   scores, argmaxResult, frameVars, envVars, lastLabel, streakStart,
                   gate, prevGate, lastOutcome, iterBit, iterStartUI,
                   metadataEvents, loopsStarted, loadAttempts>>

\* getUserMedia resolved: the stream is attached and onloadedmetadata set.
GetUserMediaResolve ==
    /\ camera = "pending"
    /\ camera' = "streaming"
    /\ UNCHANGED <<progVars, loadState, rafPending, awaitingData, awaitingRun,
                   scores, argmaxResult, frameVars, envVars, histVars>>

\* getUserMedia rejected: the .catch handler.
GetUserMediaReject ==
    /\ camera = "pending"
    /\ camera' = "denied"
    /\ overlayText' = MsgWebcamDenied
    /\ overlayDisplay' = "block"
    /\ UNCHANGED <<modelLoaded, isPredicting, poorQualityStartTime,
                   captureDisabled, captureText, loadState, rafPending,
                   awaitingData, awaitingRun, scores, argmaxResult, frameVars,
                   envVars, histVars>>

\* ---------------------------------------------------- prediction loop

\* The end of one runInference call: tf.dispose() and
\* requestAnimationFrame(runInference), after the try/catch.
EndIteration(threw, pending) ==
    /\ rafPending' = ScheduleNext(threw, pending)
    /\ iterBit' = 1 - iterBit
    /\ lastOutcome' = IF threw THEN "threw" ELSE "ok"

\* runInference() from its call to its first await: building the tensors
\* either throws (the catch block logs it) or reaches
\* await transposedTensor.data().  `pending` is the callback queue's length
\* once this call has been taken off it.
RunInferenceBegin(pending) ==
    /\ iterStartUI' = UI
    /\ \E threw \in BOOLEAN :
          IF threw
          THEN /\ SetUI(CatchPrediction(UI))
               /\ EndIteration(TRUE, pending)
               /\ UNCHANGED awaitingData
          ELSE /\ awaitingData' = awaitingData + 1
               /\ rafPending' = pending
               /\ UNCHANGED <<uiVars, iterBit, lastOutcome>>
    /\ UNCHANGED <<awaitingRun, scores, argmaxResult, frameVars, lastLabel,
                   streakStart, gate, prevGate>>

\* The guard of startPredictionLoop without the isPredicting flag.
LoopGuardReturns_noFlag == ~modelLoaded

\* The guard of startPredictionLoop.
LoopGuardReturns == ~modelLoaded \/ isPredicting

\* video.onloadedmetadata: video.play(); startPredictionLoop().
OnLoadedMetadata ==
    /\ camera = "streaming"
    /\ metadataEvents < MaxMetadataEvents
    /\ metadataEvents' = metadataEvents + 1
    /\ IF LoopGuardReturns
       THEN UNCHANGED <<isPredicting, loopsStarted, uiVars, rafPending,
                        awaitingData, awaitingRun, scores, argmaxResult, frameVars,
                        lastLabel, streakStart, gate, prevGate, lastOutcome,
                        iterBit, iterStartUI>>
       ELSE /\ isPredicting' = TRUE
            /\ loopsStarted' = loopsStarted + 1
            /\ RunInferenceBegin(rafPending)
    /\ UNCHANGED <<modelLoaded, loadState, camera, envVars, loadAttempts,
                   cameraRequests>>

\* The browser runs a queued requestAnimationFrame callback.
RafCallback ==
    /\ rafPending > 0
    /\ RunInferenceBegin(rafPending - 1)
    /\ UNCHANGED <<modelLoaded, isPredicting, loadState, camera, envVars,
                   metadataEvents, loopsStarted, loadAttempts,
                   cameraRequests>>

\* transposedTensor.data() settles: resolved, session.run is called;
\* rejected (or new onnx.Tensor throws), the catch block runs.
DataSettle ==
    /\ awaitingData > 0
    /\ awaitingData' = awaitingData - 1
    /\ \E resolved \in BOOLEAN :
          IF resolved
          THEN /\ awaitingRun' = awaitingRun + 1
               /\ UNCHANGED <<uiVars, rafPending, iterBit, lastOutcome>>
          ELSE /\ SetUI(CatchPrediction(UI))
               /\ EndIteration(TRUE, rafPending)
               /\ UNCHANGED awaitingRun
    /\ UNCHANGED <<modelLoaded, isPredicting, loadState, camera, scores, argmaxResult, frameVars,
                   envVars, lastLabel, streakStart, gate, prevGate,
                   iterStartUI, metadataEvents, loopsStarted, loadAttempts,
                   cameraRequests>>

\* What the history records when updateUI(label) has run at time now.
RecordFrame(label) ==
    LET start == IF label = "good_quality" THEN NULL
                 ELSE IF lastLabel \in NonGoodLabels THEN streakStart
                 ELSE now
    IN  /\ lastLabel' = label
        /\ streakStart' = start
        /\ gate' = GateAfter(label, start, now)
        /\ prevGate' = gate

\* session.run rejected: the catch block.
SessionRunReject ==
    /\ awaitingRun > 0
    /\ awaitingRun' = awaitingRun - 1
    /\ SetUI(CatchPrediction(UI))
    /\ EndIteration(TRUE, rafPending)
    /\ UNCHANGED <<modelLoaded, isPredicting, loadState, camera, awaitingData, scores,
                   argmaxResult, frameVars, envVars, lastLabel, streakStart, gate,
                   prevGate, iterStartUI, metadataEvents, loopsStarted,
                   loadAttempts, cameraRequests>>

\* A frame that starts a non-good streak arrives no later than MaxNow.
StreakMayBegin(label) ==
    (label \in NonGoodLabels /\ poorQualityStartTime = NULL) => now <= MaxNow

\* session.run resolved: argmax, labels[prediction], updateUI.  A prediction
\* without a label makes predictedLabel.replace throw before updateUI has
\* written anything.
SessionRunResolve ==
    /\ awaitingRun > 0
    /\ awaitingRun' = awaitingRun - 1
    /\ \E out \in FrameOutputs :
          LET prediction == argmax(out)
              predictedLabel == LabelAt(prediction)
          IN  /\ StreakMayBegin(predictedLabel)
              /\ IF predictedLabel = "undefined"
                 THEN /\ SetUI(CatchPrediction(UI))
                      /\ EndIteration(TRUE, rafPending)
                      /\ UNCHANGED <<lastLabel, streakStart, gate, prevGate>>
                 ELSE /\ SetUI(updateUI(predictedLabel, UI, now))
                      /\ RecordFrame(predictedLabel)
                      /\ EndIteration(FALSE, rafPending)
    /\ UNCHANGED <<modelLoaded, isPredicting, loadState, camera, awaitingData,
                   scores, argmaxResult, frameVars, envVars, iterStartUI, metadataEvents, loopsStarted,
                   loadAttempts, cameraRequests>>

\* ---------------------------------------------------------------- time

ClockRunning ==
    IF poorQualityStartTime = NULL
    THEN now < MaxNow
    ELSE now - poorQualityStartTime < MaxElapsed

\* Time passes between two handlers.
Tick ==
    /\ ClockRunning
    /\ \E d \in TickSteps : now' = now + d
    /\ UNCHANGED <<progVars, ctlVars, hasGetUserMedia, histVars>>

\* ------------------------------------------------------ specifications

Next ==
    \/ WindowOnLoad
    \/ LoadModelResolve
    \/ LoadModelReject
    \/ GetUserMediaResolve
    \/ GetUserMediaReject
    \/ OnLoadedMetadata
    \/ RafCallback
    \/ DataSettle
    \/ SessionRunReject
    \/ SessionRunResolve
    \/ Tick

Spec == Init /\ [][Next]_vars

\* The browser keeps running the loop and time keeps passing: queued
\* animation-frame callbacks run, awaited promises settle, the clock advances.
\* Whether a frame is classified or fails is left open.
LiveSpec ==
    /\ Spec
    /\ WF_vars(Tick)
    /\ WF_vars(RafCallback)
    /\ WF_vars(DataSettle)
    /\ WF_vars(SessionRunReject \/ SessionRunResolve)

\* argmax on its own, over every score array of ScoreArrays.
ArgmaxInit ==
    /\ InitScript
    /\ hasGetUserMedia = TRUE
    /\ scores \in ScoreArrays
    /\ argmaxResult = NULL
    /\ imageData = NoFrame
    /\ tensorData = <<>>
    /\ tensorBy = "none"

ArgmaxCall ==
    /\ argmaxResult = NULL
    /\ argmaxResult' = argmax(scores)
    /\ UNCHANGED <<progVars, loadState, camera, rafPending, awaitingData,
                   awaitingRun, scores, frameVars, envVars, histVars>>

ArgmaxSpec == ArgmaxInit /\ [][ArgmaxCall]_vars

\* Preprocessing on its own, over every frame of Frames: the preprocess
\* function and the tensor pipeline of runInference.
PreprocessInit ==
    /\ InitScript
    /\ hasGetUserMedia = TRUE
    /\ scores = <<>>
    /\ argmaxResult = NULL
    /\ imageData \in Frames
    /\ tensorData = <<>>
    /\ tensorBy = "none"

PreprocessCall ==
    /\ tensorBy = "none"
    /\ tensorData' = preprocess(imageData)
    /\ tensorBy' = "preprocess"
    /\ UNCHANGED <<progVars, loadState, camera, rafPending, awaitingData,
                   awaitingRun, scores, argmaxResult, imageData, envVars,
                   histVars>>

TfPipelineCall ==
    /\ tensorBy = "none"
    /\ tensorData' = tfPipeline(imageData)
    /\ tensorBy' = "tf"
    /\ UNCHANGED <<progVars, loadState, camera, rafPending, awaitingData,
                   awaitingRun, scores, argmaxResult, imageData, envVars,
                   histVars>>

PreprocessNext ==
    \/ PreprocessCall
    \/ TfPipelineCall

PreprocessSpec == PreprocessInit /\ [][PreprocessNext]_vars

\* ------------------------------------------------------------- claims

TimeoutMs == TIMEOUT_SECONDS * MsPerSecond

\* Iterations of runInference scheduled or in flight.
LoopTokens == rafPending + awaitingData + awaitingRun

\* This step ends an iteration of runInference.
IterationEnded == iterBit' # iterBit

\* This step ends an iteration in which updateUI ran to completion.
FrameClassified == IterationEnded /\ lastOutcome' = "ok"

\* C1: after every frame of a non-good streak whose first frame was
\* processed at T0 (streakStart), processed at T (now), the capture button
\* is disabled if T - T0 < 20 s and enabled if T - T0 >= 20 s.
C1_GraceThenEnabled ==
    [][(FrameClassified /\ lastLabel' \in NonGoodLabels)
        => /\ streakStart' # NULL
           /\ captureDisabled' = (now' - streakStart' < TimeoutMs)]_vars

\* A streak's frame processed exactly 20 s after its first frame, which was
\* the first to find the button enabled again.
C1_Witness ==
    /\ lastLabel \in NonGoodLabels
    /\ lastOutcome = "ok"
    /\ prevGate = "POOR_WITHIN_GRACE"
    /\ now - streakStart = TimeoutMs
    /\ ~captureDisabled

\* C2: a good_quality frame leaves, in that same step, the timer unset, the
\* capture button enabled and the overlay hidden, whatever the gate state
\* before; the next non-good frame starts the timer at its own time with
\* the button disabled.
C2_GoodResets ==
    [][/\ (FrameClassified /\ lastLabel' = "good_quality")
           => /\ poorQualityStartTime' = NULL
              /\ ~captureDisabled'
              /\ overlayDisplay' = "none"
       /\ (FrameClassified /\ lastLabel = "good_quality"
                           /\ lastLabel' \in NonGoodLabels)
           => /\ poorQualityStartTime' = now'
              /\ captureDisabled']_vars

\* A good frame that arrived in POOR_TIMED_OUT.
C2_Witness ==
    /\ lastLabel = "good_quality"
    /\ lastOutcome = "ok"
    /\ prevGate = "POOR_TIMED_OUT"
    /\ poorQualityStartTime = NULL

C4_FailedFrameChangesNothing ==
    [][(IterationEnded /\ lastOutcome' = "threw") => UI' = iterStartUI']_vars

\* A frame failed while the button was disabled within the grace period.
C4_Witness ==
    /\ lastOutcome = "threw"
    /\ gate = "POOR_WITHIN_GRACE"
    /\ captureDisabled
    /\ overlayDisplay = "block"

\* C5: every iteration of runInference that ends, normally or by a throw,
\* leaves exactly one next iteration scheduled and none in flight.
C5_OneNextIteration ==
    [][IterationEnded => /\ rafPending' = 1
                         /\ awaitingData' = 0
                         /\ awaitingRun' = 0]_vars

\* A frame failed after an earlier one had been classified, and the next
\* iteration is scheduled.
C5_Witness ==
    /\ lastOutcome = "threw"
    /\ lastLabel # "none"
    /\ rafPending = 1
    /\ LoopTokens = 1

\* C6 as stated: when the camera stream cannot be acquired (getUserMedia
\* rejected, or no getUserMedia at all) a fatal overlay message is displayed
\* and the prediction loop never starts.
C6_CameraFailureShown ==
    camera \in {"denied", "unsupported"}
        => /\ overlayDisplay = "block"
           /\ overlayText = MsgWebcamDenied
           /\ ~isPredicting
           /\ LoopTokens = 0

\* C7: after a failed model load the fatal message is displayed, modelLoaded
\* is false, no camera request was made, no loop was started and the load
\* was attempted at most once.
C7_ModelLoadFailureIsFatal ==
    loadState = "failed"
        => /\ overlayText = MsgModelError
           /\ overlayDisplay = "block"
           /\ ~modelLoaded
           /\ camera = "none"
           /\ cameraRequests = 0
           /\ ~isPredicting
           /\ loopsStarted = 0
           /\ LoopTokens = 0
           /\ loadAttempts <= 1

\* session.loadModel was called and rejected.
C7_Witness ==
    /\ loadState = "failed"
    /\ loadAttempts = 1
    /\ now > 0

\* C8: poorQualityStartTime is set exactly when the last classified frame
\* was non-good; failed frames do not count.
C8_TimerSetIffStreak ==
    (poorQualityStartTime # NULL) <=> (lastLabel \in NonGoodLabels)

\* A failed frame after a good frame that followed a non-good streak.
C8_Witness ==
    /\ lastLabel = "good_quality"
    /\ prevGate = "POOR_WITHIN_GRACE"
    /\ lastOutcome = "threw"
    /\ poorQualityStartTime = NULL

\* C9: in POOR_TIMED_OUT every further non-good frame leaves the button
\* enabled and the overlay showing the proceed message, and the button is
\* disabled again only by a non-good frame that finds the timer unset.
C9_TimedOutStaysEnabled ==
    [][/\ (gate = "POOR_TIMED_OUT" /\ FrameClassified
                                   /\ lastLabel' \in NonGoodLabels)
           => /\ ~captureDisabled'
              /\ overlayText' = MsgProceed
              /\ overlayDisplay' = "block"
       /\ gate = "POOR_TIMED_OUT" => ~captureDisabled'
       /\ (~captureDisabled /\ captureDisabled')
           => /\ gate = "GOOD"
              /\ poorQualityStartTime = NULL
              /\ lastLabel' \in NonGoodLabels]_vars

\* A non-good frame processed when the streak had already timed out.
C9_Witness ==
    /\ gate = "POOR_TIMED_OUT"
    /\ prevGate = "POOR_TIMED_OUT"
    /\ lastOutcome = "ok"
    /\ overlayText = MsgProceed
    /\ ~captureDisabled

\* C10: argmax returns an index of the maximum of a non-empty array, and
\* the lowest one when the maximum occurs more than once.
C10_ArgmaxLowestMaximum ==
    argmaxResult # NULL
        => /\ argmaxResult \in 0..(Len(scores) - 1)
           /\ \A j \in 1..Len(scores) : scores[j] <= scores[argmaxResult + 1]
           /\ \A j \in 1..argmaxResult : scores[j] < scores[argmaxResult + 1]

\* The maximum occurs at indices 1 and 3; argmax returned 1.
C10_Witness ==
    /\ scores = <<0, 2, 1, 2>>
    /\ argmaxResult = 1

\* Element c*H*W + h*W + w of the tensor is the normalised value of channel
\* c of pixel (h, w) of the frame.
PlanarLayout(tensor, image) ==
    LET H == image.height
        W == image.width
    IN  /\ Len(tensor) = 3 * H * W
        /\ \A c \in 0..2 : \A h \in 0..(H - 1) : \A w \in 0..(W - 1) :
              tensor[c * H * W + h * W + w + 1]
                  = Normalized(c, image.data[(h * W + w) * 4 + c + 1])

\* C11 as stated: the tensor built from a frame, by preprocess or by the
\* pipeline of runInference, is in planar channel-first layout.
C11_PlanarChannelFirst ==
    tensorBy # "none" => PlanarLayout(tensorData, imageData)

\* What holds: the pipeline of runInference builds the planar layout;
\* preprocess does so only for a frame of one pixel.
C11_OnlyTfPipelinePlanar ==
    /\ tensorBy = "tf" => PlanarLayout(tensorData, imageData)
    /\ tensorBy = "preprocess"
        => (PlanarLayout(tensorData, imageData)
               <=> imageData.height * imageData.width = 1)

\* C12: however often onloadedmetadata fires, startPredictionLoop starts at
\* most one runInference chain: the call that finds modelLoaded true and
\* isPredicting false; every later call returns at its guard.
C12_SingleLoop ==
    /\ loopsStarted <= 1
    /\ isPredicting <=> loopsStarted = 1
    /\ metadataEvents >= 1 => loopsStarted = 1

\* onloadedmetadata fired a second time while the loop was running.
C12_Witness ==
    /\ metadataEvents = 2
    /\ isPredicting
    /\ loopsStarted = 1
    /\ lastOutcome = "ok"

\* C13: at most one iteration is in flight or scheduled at any moment, and
\* a callback is queued only by a step that ends the previous iteration
\* (after updateUI or after the catch block).
C13_NoOverlap ==
    /\ [](LoopTokens <= 1)
    /\ [](isPredicting => LoopTokens = 1)
    /\ [][rafPending' > rafPending => IterationEnded]_vars
    /\ [][(IterationEnded /\ rafPending > 0) => LoopTokens = rafPending]_vars

\* An iteration is awaiting session.run after earlier iterations have ended;
\* nothing else is queued or in flight.
C13_Witness ==
    /\ awaitingRun = 1
    /\ rafPending = 0
    /\ awaitingData = 0
    /\ lastOutcome = "ok"
    /\ metadataEvents = 2

\* C14: session.loadModel is called at most once, getUserMedia only after
\* the load has succeeded, and no iteration of the loop (no session.run, no
\* updateUI) exists before the model is loaded and the stream acquired.
C14_LifecycleOrder ==
    /\ loadAttempts <= 1
    /\ cameraRequests <= 1
    /\ (cameraRequests > 0 \/ camera # "none")
           => (modelLoaded /\ loadState = "loaded")
    /\ modelLoaded <=> loadState = "loaded"
    /\ (isPredicting \/ LoopTokens > 0 \/ lastOutcome # "none"
                     \/ lastLabel # "none" \/ metadataEvents > 0)
           => (modelLoaded /\ camera = "streaming")

\* session.run is awaited: the model was loaded once, the camera requested
\* once and acquired.
C14_Witness ==
    /\ awaitingRun = 1
    /\ loadAttempts = 1
    /\ cameraRequests = 1
    /\ camera = "streaming"
    /\ modelLoaded

\* C15: a non-good frame that finds the timer unset sets it to the current
\* time; from then on, while the last classified frame is non-good, no step
\* (a further non-good frame with the same or another label, a failed
\* frame, time passing) changes poorQualityStartTime.
C15_TimerWrittenOnce ==
    [][/\ (FrameClassified /\ lastLabel' \in NonGoodLabels
                           /\ poorQualityStartTime = NULL)
           => poorQualityStartTime' = now'
       /\ (lastLabel \in NonGoodLabels /\ lastLabel' \in NonGoodLabels)
           => poorQualityStartTime' = poorQualityStartTime]_vars

\* A later frame of a streak, processed after its first frame and within
\* the grace period, with the timer still at the streak's start.
C15_Witness ==
    /\ lastLabel \in NonGoodLabels
    /\ lastOutcome = "ok"
    /\ prevGate = "POOR_WITHIN_GRACE"
    /\ gate = "POOR_WITHIN_GRACE"
    /\ poorQualityStartTime = streakStart
    /\ now - poorQualityStartTime = 19999

\* The overlay text updateUI shows for a non-good label within the grace
\* period.
LabelMessage(label) ==
    CASE label = "blurry" -> "(no entry) blurry detected!"
      [] label = "too_dark" -> "(no entry) too dark detected!"
      [] label = "poor_framing" -> "(no entry) poor framing detected!"
      [] OTHER -> "no message"

\* C16: (the page starting with the button enabled) a disabled capture
\* button implies the overlay is displayed with the label-specific message
\* of the last classified, non-good frame.
C16_DisabledShowsReason ==
    captureDisabled
        => /\ overlayDisplay = "block"
           /\ lastLabel \in NonGoodLabels
           /\ overlayText = LabelMessage(lastLabel)

\* The button is disabled for poor framing and a later frame has failed.
C16_Witness ==
    /\ captureDisabled
    /\ lastLabel = "poor_framing"
    /\ lastOutcome = "threw"
    /\ overlayText = "(no entry) poor framing detected!"

\* C17: once a frame has been classified the button's text is 'Take Anyway'
\* exactly when poorQualityStartTime is set and 'Take Picture' exactly when
\* it is null.
C17_TextFollowsTimer ==
    lastLabel # "none"
        => /\ (captureText = "Take Anyway") <=> (poorQualityStartTime # NULL)
           /\ (captureText = "Take Picture") <=> (poorQualityStartTime = NULL)

\* The timed-out state: the button is enabled and still says 'Take Anyway'.
C17_Witness ==
    /\ gate = "POOR_TIMED_OUT"
    /\ ~captureDisabled
    /\ poorQualityStartTime # NULL
    /\ captureText = "Take Anyway"

====
